---------------------------- MODULE Spec2Model ----------------------------
(***************************************************************************)
(* Model of TeamsAssignmentDownloader.py: the name sanitizer, the unique   *)
(* path resolver, the extension split used by the collector, and the       *)
(* collector copy_from_local_folder itself.                                *)
(*                                                                         *)
(* File and folder names are sequences of one-character strings, so that   *)
(* the character-level work of the code (replacing, collapsing, stripping, *)
(* formatting the collision number) is computed and not assumed.           *)
(***************************************************************************)
EXTENDS Integers, Sequences, FiniteSets, TLC

VARIABLES
    \* --- sanitize_filename applied to an arbitrary string
    sPc, sName, sOnce, sTwice,
    \* --- os.path.splitext applied to an arbitrary file name
    ePc, eName, eExt,
    \* --- choose_unique_filename called repeatedly on one folder
    rPc, rBase, rExt, rFolder0, rFolder, rPath, rReturned,
    \* --- copy_from_local_folder: the arguments and the file system it is given
    rootKind,        \* what turned_in_path is: "missing", "file" or "dir"
    rootEntries,     \* the entries of the root: records [name, kind]
    srcFiles,        \* the files below the student folders: [student, dir, fname]
    selector,        \* assignment_subfolder (<<>> is None)
    prefix, suffix,  \* prefix, suffix (<<>> is None)
    addToHeader,     \* add_to_header
    docxAvailable,   \* DOCX_AVAILABLE
    out0,            \* the output folder before the run: name -> content
    \* --- copy_from_local_folder: the run
    pc,              \* "start", "scan", "walk", "done", "config_error", "io_error"
    toScan,          \* entries os.scandir has not yielded yet
    student,         \* entry.name of the student being walked
    baseName,        \* base_name
    stack,           \* directories os.walk has still to visit
    pending,         \* files of the visited directory still to copy
    totalFound, totalCopied,
    output,          \* the output folder: name -> content
    result,          \* the returned pair, <<>> while nothing is returned
    attempts         \* history: one record per call of shutil.copy2

sanVars == <<sPc, sName, sOnce, sTwice>>
extVars == <<ePc, eName, eExt>>
resVars == <<rPc, rBase, rExt, rFolder0, rFolder, rPath, rReturned>>
argVars == <<rootKind, rootEntries, srcFiles, selector, prefix, suffix,
             addToHeader, docxAvailable, out0>>
runVars == <<pc, toScan, student, baseName, stack, pending, totalFound,
             totalCopied, output, result, attempts>>
colVars == <<argVars, runVars>>
vars == <<sanVars, extVars, resVars, colVars>>

-----------------------------------------------------------------------------
(* Bounds of the model *)

MaxNameLen == 4        \* longest string handed to sanitize_filename
MaxFileNameLen == 4    \* longest file name handed to splitext
MaxPre == 3            \* highest collision number already present in a folder
MaxCalls == 3          \* number of consecutive resolver calls
MaxFiles == 2          \* number of files below the student folders

-----------------------------------------------------------------------------
(* Strings *)

RECURSIVE StringsUpTo(_, _)
StringsUpTo(alphabet, n) ==
    IF n = 0 THEN {<<>>}
    ELSE LET shorter == StringsUpTo(alphabet, n - 1)
         IN  shorter \cup {Append(s, c) : s \in {t \in shorter : Len(t) = n - 1},
                                           c \in alphabet}

Chars(s) == {s[i] : i \in 1..Len(s)}

\* "xy" in s
Contains2(s, x, y) == \E i \in 1..(Len(s) - 1) : s[i] = x /\ s[i + 1] = y

\* str.isspace() for the characters of the model
Whitespace == {" ", "\t"}

\* s.lstrip(set), s.rstrip(set)
RECURSIVE LStrip(_, _)
LStrip(s, set) ==
    IF s # <<>> /\ Head(s) \in set THEN LStrip(Tail(s), set) ELSE s

RECURSIVE RStrip(_, _)
RStrip(s, set) ==
    IF s # <<>> /\ s[Len(s)] \in set THEN RStrip(SubSeq(s, 1, Len(s) - 1), set) ELSE s

\* s.strip()
Strip(s) == RStrip(LStrip(s, Whitespace), Whitespace)

\* one pass of s.replace("  ", " "): leftmost non-overlapping occurrences
RECURSIVE ReplaceDoubleSpace(_)
ReplaceDoubleSpace(s) ==
    IF Len(s) < 2 THEN s
    ELSE IF s[1] = " " /\ s[2] = " "
         THEN <<" ">> \o ReplaceDoubleSpace(SubSeq(s, 3, Len(s)))
         ELSE <<s[1]>> \o ReplaceDoubleSpace(Tail(s))

\* while "  " in sanitized: sanitized = sanitized.replace("  ", " ")
RECURSIVE CollapseSpaces(_)
CollapseSpaces(s) ==
    IF Contains2(s, " ", " ") THEN CollapseSpaces(ReplaceDoubleSpace(s)) ELSE s

-----------------------------------------------------------------------------
(* sanitize_filename *)

Invalid == {"<", ">", ":", "\"", "/", "\\", "|", "?", "*"}

Unnamed == <<"u", "n", "n", "a", "m", "e", "d">>

ReplaceInvalid(s) == [i \in 1..Len(s) |-> IF s[i] \in Invalid THEN " " ELSE s[i]]

ReplaceUnderscore(s) == [i \in 1..Len(s) |-> IF s[i] = "_" THEN " " ELSE s[i]]

\* sanitized.strip().rstrip(".")
StripThenDots(s) == RStrip(Strip(s), {"."})

\* a sanitizer that leaves the reserved characters in place
SanitizeKeepInvalid(name) ==
    LET sanitized == StripThenDots(CollapseSpaces(ReplaceUnderscore(name)))
    IN  IF sanitized # <<>> THEN sanitized ELSE Unnamed

sanitize_filename(name) ==
    LET sanitized == StripThenDots(CollapseSpaces(ReplaceUnderscore(ReplaceInvalid(name))))
    IN  IF sanitized # <<>> THEN sanitized ELSE Unnamed

-----------------------------------------------------------------------------
(* os.path.splitext, as used on a bare file name *)

Dots(s) == {i \in 1..Len(s) : s[i] = "."}

LastDot(s) == CHOOSE i \in Dots(s) : \A j \in Dots(s) : j <= i

\* the text from the last dot onward, whatever precedes it
FromLastDot(fname) ==
    IF Dots(fname) = {} THEN <<>> ELSE SubSeq(fname, LastDot(fname), Len(fname))

\* the leading dots of the name are skipped: the last dot starts an extension
\* only if some character before it is not a dot
splitext(fname) ==
    IF Dots(fname) = {} THEN <<>>
    ELSE IF \E k \in 1..(LastDot(fname) - 1) : fname[k] # "."
         THEN SubSeq(fname, LastDot(fname), Len(fname))
         ELSE <<>>

-----------------------------------------------------------------------------
(* choose_unique_filename *)

DigitChar(d) == <<"0", "1", "2", "3", "4", "5", "6", "7", "8", "9">>[d + 1]

\* f"{i}" for i >= 0
RECURSIVE Decimal(_)
Decimal(i) == IF i < 10 THEN <<DigitChar(i)>>
              ELSE Decimal(i \div 10) \o <<DigitChar(i % 10)>>

\* f"{base_name} ({i}){ext}"
Numbered(base_name, ext, i) == base_name \o <<" ", "(">> \o Decimal(i) \o <<")">> \o ext

\* the i-th name the resolver tries (the plain name first)
Candidate(base_name, ext, i) ==
    IF i = 1 THEN base_name \o ext ELSE Numbered(base_name, ext, i)

\* the while True loop: folder is the set of names that exist in the folder
RECURSIVE Probe(_, _, _, _)
Probe(base_name, ext, folder, i) ==
    IF Numbered(base_name, ext, i) \notin folder
    THEN Numbered(base_name, ext, i)
    ELSE Probe(base_name, ext, folder, i + 1)

\* a resolver that returns the plain name without looking at the folder
ChooseUnchecked(base_name, ext, folder) == base_name \o ext

\* a resolver whose loop never advances past (2)
ChooseStuckAtTwo(base_name, ext, folder) ==
    IF base_name \o ext \notin folder THEN base_name \o ext
    ELSE Numbered(base_name, ext, 2)

choose_unique_filename(base_name, ext, folder) ==
    IF base_name \o ext \notin folder THEN base_name \o ext
    ELSE Probe(base_name, ext, folder, 2)

-----------------------------------------------------------------------------
(* Idle values of the variables a specification does not use *)

SanIdle == sPc = "off" /\ sName = <<>> /\ sOnce = <<>> /\ sTwice = <<>>
ExtIdle == ePc = "off" /\ eName = <<>> /\ eExt = <<>>
ResIdle == /\ rPc = "off" /\ rBase = <<>> /\ rExt = <<>> /\ rFolder0 = {}
           /\ rFolder = {} /\ rPath = <<>> /\ rReturned = <<>>
ColIdle == /\ rootKind = "missing" /\ rootEntries = {} /\ srcFiles = {}
           /\ selector = <<>> /\ prefix = <<>> /\ suffix = <<>>
           /\ addToHeader = FALSE /\ docxAvailable = FALSE /\ out0 = <<>>
           /\ pc = "off" /\ toScan = {} /\ student = <<>> /\ baseName = <<>>
           /\ stack = <<>> /\ pending = {} /\ totalFound = 0 /\ totalCopied = 0
           /\ output = <<>> /\ result = <<>> /\ attempts = <<>>

-----------------------------------------------------------------------------
(* Specification SpecSanitize: sanitize_filename on every short string *)

NameAlphabet == {"a", " ", "\t", ".", "_", "/", "*"}

InitSanitize ==
    /\ sPc = "input"
    /\ sName \in StringsUpTo(NameAlphabet, MaxNameLen)
    /\ sOnce = <<>> /\ sTwice = <<>>
    /\ ExtIdle /\ ResIdle /\ ColIdle

Sanitize ==
    /\ sPc = "input"
    /\ sOnce' = sanitize_filename(sName)
    /\ sPc' = "once"
    /\ UNCHANGED <<sName, sTwice, extVars, resVars, colVars>>

SanitizeAgain ==
    /\ sPc = "once"
    /\ sTwice' = sanitize_filename(sOnce)
    /\ sPc' = "twice"
    /\ UNCHANGED <<sName, sOnce, extVars, resVars, colVars>>

NextSanitize == Sanitize \/ SanitizeAgain

SpecSanitize == InitSanitize /\ [][NextSanitize]_vars

-----------------------------------------------------------------------------
(* Specification SpecExt: the extension of every short file name *)

FileAlphabet == {"a", "b", "."}

\* "." and ".." are never names of files
FileNames ==
    {n \in StringsUpTo(FileAlphabet, MaxFileNameLen) :
        n # <<>> /\ n # <<".">> /\ n # <<".", ".">>}

InitExt ==
    /\ ePc = "input"
    /\ eName \in FileNames
    /\ eExt = <<>>
    /\ SanIdle /\ ResIdle /\ ColIdle

SplitExt ==
    /\ ePc = "input"
    /\ eExt' = splitext(eName)
    /\ ePc' = "split"
    /\ UNCHANGED <<eName, sanVars, resVars, colVars>>

NextExt == SplitExt

SpecExt == InitExt /\ [][NextExt]_vars

-----------------------------------------------------------------------------
(* Specification SpecResolver: choose_unique_filename called again and     *)
(* again with one base name and extension, the caller creating each path   *)
(* it was given before the next call.                                      *)

ResolverBases == {<<"a">>, <<"a", " ", "(", "2", ")">>}
ResolverExts == {<<>>, <<".", "t">>}

\* names a folder may hold before the first call
PreNames == {Candidate(<<"a">>, e, i) : e \in ResolverExts, i \in 1..MaxPre}

InitResolver ==
    /\ rPc = "idle"
    /\ rBase \in ResolverBases
    /\ rExt \in ResolverExts
    /\ rFolder0 \in SUBSET PreNames
    /\ rFolder = rFolder0
    /\ rPath = <<>>
    /\ rReturned = <<>>
    /\ SanIdle /\ ExtIdle /\ ColIdle

Resolve ==
    /\ rPc = "idle"
    /\ Len(rReturned) < MaxCalls
    /\ rPath' = choose_unique_filename(rBase, rExt, rFolder)
    /\ rPc' = "returned"
    /\ UNCHANGED <<rBase, rExt, rFolder0, rFolder, rReturned, sanVars, extVars, colVars>>

\* the caller creates the returned path
Claim ==
    /\ rPc = "returned"
    /\ rFolder' = rFolder \cup {rPath}
    /\ rReturned' = Append(rReturned, rPath)
    /\ rPc' = "idle"
    /\ UNCHANGED <<rBase, rExt, rFolder0, rPath, sanVars, extVars, colVars>>

NextResolver == Resolve \/ Claim

SpecResolver == InitResolver /\ [][NextResolver]_vars

-----------------------------------------------------------------------------
(* The file systems and arguments copy_from_local_folder is run on *)

StudentA == <<"a">>
StudentUA == <<"_", "a">>                \* sanitizes to the name of StudentA
LooseFile == <<"r", ".", "t">>           \* a file lying directly in the root

DirE == <<"E">>                          \* an assignment folder
DirS == <<"s">>                          \* a folder nested in an assignment folder
DirQ == <<"Q">>                          \* another assignment folder

FileXT == <<"x", ".", "t">>
FileYT == <<"y", ".", "t">>
FileDocx == <<"z", ".", "D", "o", "c", "x">>

StudentEntries ==
    {[name |-> StudentA, kind |-> "dir"], [name |-> StudentUA, kind |-> "dir"]}

\* the root holds any of the student folders, and one file that is no folder
RootListings ==
    {S \cup {[name |-> LooseFile, kind |-> "file"]} : S \in SUBSET StudentEntries}

\* where a file may lie below a student folder: <<dir, fname>>
FileSlots ==
    {<< <<>>, FileXT >>, << <<>>, DirE >>, << <<DirE>>, FileXT >>,
     << <<DirE, DirS>>, FileYT >>, << <<DirQ>>, FileDocx >>}

IsPrefix(p, q) == Len(p) <= Len(q) /\ SubSeq(q, 1, Len(p)) = p

\* the directories below a student folder: those that hold a file somewhere
DirsOf(files, st) ==
    UNION {{SubSeq(f.dir, 1, k) : k \in 1..Len(f.dir)} :
              f \in {g \in files : g.student = st}}

\* one name of a directory is a file or a folder, never both
WellFormed(files) ==
    \A f \in files : f.dir = <<>> => <<f.fname>> \notin DirsOf(files, f.student)

SourceTrees(entries) ==
    LET students == {e.name : e \in {x \in entries : x.kind = "dir"}}
        all == {[student |-> st, dir |-> sl[1], fname |-> sl[2]] :
                   st \in students, sl \in FileSlots}
    IN  {fs \in SUBSET all : Cardinality(fs) <= MaxFiles /\ WellFormed(fs)}

NoFile == [student |-> <<>>, dir |-> <<>>, fname |-> <<>>]

\* content of a file that lay in the output folder before the run
Old == [src |-> NoFile, state |-> "old", label |-> <<>>]

\* names the output folder may hold before the run
OutNames == {<<"a", ".", "t">>, <<"a", " ", "(", "2", ")", ".", "t">>}

Prefixes == {<<>>, <<"h", "/", "w">>}
Suffixes == {<<>>, <<"f">>}
Selectors == {<<>>, DirE}

-----------------------------------------------------------------------------
(* copy_from_local_folder *)

UpperCase == <<"A", "B", "C", "D", "E", "F", "G", "H", "I", "J", "K", "L", "M",
               "N", "O", "P", "Q", "R", "S", "T", "U", "V", "W", "X", "Y", "Z">>
LowerCase == <<"a", "b", "c", "d", "e", "f", "g", "h", "i", "j", "k", "l", "m",
               "n", "o", "p", "q", "r", "s", "t", "u", "v", "w", "x", "y", "z">>

\* s.lower()
Lower(s) ==
    [i \in 1..Len(s) |->
        IF \E k \in 1..Len(UpperCase) : UpperCase[k] = s[i]
        THEN LowerCase[CHOOSE k \in 1..Len(UpperCase) : UpperCase[k] = s[i]]
        ELSE s[i]]

DotDocx == <<".", "d", "o", "c", "x">>

\* validation that accepts anything that exists
RootExists(kind) == kind # "missing"

\* os.path.isdir(turned_in_path)
RootIsDir(kind) == kind = "dir"

\* sanitize_filename(x).strip() if x and x.strip() else ""
SafeAffix(x) ==
    IF x # <<>> /\ Strip(x) # <<>> THEN Strip(sanitize_filename(x)) ELSE <<>>

base_name(entryName, pre, suf) ==
    LET student_name == sanitize_filename(entryName)
        safe_prefix == SafeAffix(pre)
        safe_suffix == SafeAffix(suf)
    IN  IF safe_prefix # <<>> /\ safe_suffix # <<>>
        THEN safe_prefix \o <<" ">> \o student_name \o <<" ">> \o safe_suffix
        ELSE IF safe_prefix # <<>> THEN safe_prefix \o <<" ">> \o student_name
        ELSE IF safe_suffix # <<>> THEN student_name \o <<" ">> \o safe_suffix
        ELSE student_name

\* a choice of roots that walks the whole student folder when the assignment
\* folder is missing
RootsFallBack(files, st, sel) ==
    IF sel # <<>> /\ <<sel>> \in DirsOf(files, st) THEN << <<sel>> >> ELSE << <<>> >>

\* roots_to_walk, as paths below the student folder; <<>> when the student is
\* skipped
roots_to_walk(files, st, sel) ==
    IF sel # <<>>
    THEN IF <<sel>> \in DirsOf(files, st) THEN << <<sel>> >> ELSE <<>>
    ELSE << <<>> >>

\* what the document library does when asked to open, change and save
LibOutcomes == {"saved", "open_fails", "save_fails"}

\* a stamper without the try/except
StampUnguarded(available, lib) ==
    IF ~available THEN [ret |-> FALSE, raised |-> FALSE, state |-> "copied"]
    ELSE IF lib = "saved" THEN [ret |-> TRUE, raised |-> FALSE, state |-> "stamped"]
    ELSE [ret |-> FALSE, raised |-> TRUE,
          state |-> IF lib = "open_fails" THEN "copied" ELSE "damaged"]

\* add_filename_to_docx_header: the value returned, whether an exception leaves
\* the function, and the state the file is left in
add_filename_to_docx_header(available, lib) ==
    IF ~available THEN [ret |-> FALSE, raised |-> FALSE, state |-> "copied"]
    ELSE IF lib = "saved" THEN [ret |-> TRUE, raised |-> FALSE, state |-> "stamped"]
    ELSE [ret |-> FALSE, raised |-> FALSE,
          state |-> IF lib = "open_fails" THEN "copied" ELSE "damaged"]

Subdirs(files, st, d) ==
    {q \in DirsOf(files, st) : Len(q) = Len(d) + 1 /\ IsPrefix(d, q)}

FilesIn(files, st, d) == {f \in files : f.student = st /\ f.dir = d}

\* the orders in which a directory listing may come
Orders(S) ==
    {q \in [1..Cardinality(S) -> S] : \A i, j \in DOMAIN q : i # j => q[i] # q[j]}

\* the folder after path is written with content c
Write(folder, path, c) ==
    [n \in DOMAIN folder \cup {path} |-> IF n = path THEN c ELSE folder[n]]

Init ==
    /\ rootKind \in {"missing", "file", "dir"}
    /\ rootEntries \in IF rootKind = "dir" THEN RootListings ELSE {{}}
    /\ srcFiles \in SourceTrees(rootEntries)
    /\ selector \in Selectors
    /\ prefix \in Prefixes
    /\ suffix \in Suffixes
    /\ addToHeader \in BOOLEAN
    /\ docxAvailable \in IF addToHeader THEN BOOLEAN ELSE {TRUE}
    /\ out0 \in {[n \in S |-> Old] : S \in SUBSET OutNames}
    /\ pc = "start"
    /\ toScan = {}
    /\ student = <<>>
    /\ baseName = <<>>
    /\ stack = <<>>
    /\ pending = {}
    /\ totalFound = 0
    /\ totalCopied = 0
    /\ output = out0
    /\ result = <<>>
    /\ attempts = <<>>
    /\ SanIdle /\ ExtIdle /\ ResIdle

\* lines 115-116: the root is no directory
ConfigError ==
    /\ pc = "start"
    /\ ~RootIsDir(rootKind)
    /\ pc' = "config_error"
    /\ UNCHANGED <<sanVars, extVars, resVars, argVars, toScan, student, baseName, stack, pending,
                   totalFound, totalCopied, output, result, attempts>>

\* lines 118-120: the counters are set and the root is listed
Start ==
    /\ pc = "start"
    /\ RootIsDir(rootKind)
    /\ pc' = "scan"
    /\ toScan' = rootEntries
    /\ totalFound' = 0
    /\ totalCopied' = 0
    /\ UNCHANGED <<sanVars, extVars, resVars, argVars, student, baseName, stack, pending, output, result,
                   attempts>>

\* lines 120-150: the next entry of the root, in whatever order scandir yields
ScanEntry ==
    /\ pc = "scan"
    /\ \E e \in toScan :
        /\ toScan' = toScan \ {e}
        /\ IF e.kind # "dir"
           THEN UNCHANGED <<pc, student, baseName, stack, pending>>
           ELSE LET roots == roots_to_walk(srcFiles, e.name, selector)
                IN  /\ student' = e.name
                    /\ baseName' = base_name(e.name, prefix, suffix)
                    /\ pending' = {}
                    /\ stack' = roots
                    /\ pc' = IF roots = <<>> THEN "scan" ELSE "walk"
    /\ UNCHANGED <<sanVars, extVars, resVars, argVars, totalFound, totalCopied, output, result, attempts>>

\* line 153: os.walk visits the next directory, top down
WalkDir ==
    /\ pc = "walk"
    /\ pending = {}
    /\ stack # <<>>
    /\ pending' = FilesIn(srcFiles, student, Head(stack))
    /\ \E order \in Orders(Subdirs(srcFiles, student, Head(stack))) :
           stack' = order \o Tail(stack)
    /\ UNCHANGED <<sanVars, extVars, resVars, argVars, pc, toScan, student, baseName, totalFound,
                   totalCopied, output, result, attempts>>

\* line 153: os.walk is exhausted, back to the loop over the root
WalkEnd ==
    /\ pc = "walk"
    /\ pending = {}
    /\ stack = <<>>
    /\ pc' = "scan"
    /\ UNCHANGED <<sanVars, extVars, resVars, argVars, toScan, student, baseName, stack, pending,
                   totalFound, totalCopied, output, result, attempts>>

NotStamped == [called |-> FALSE, lib |-> "none", ret |-> FALSE, raised |-> FALSE]

\* what is remembered of one call of shutil.copy2: the folder as it was before
\* the call, what the call wrote, and what the stamper answered
Attempt(f, ext, dest, ok, content, stamp) ==
    [src |-> f, base |-> baseName, ext |-> ext, dest |-> dest,
     before |-> DOMAIN output, ok |-> ok, content |-> content, stamp |-> stamp]

\* lines 154-165 for one file, shutil.copy2 succeeding
CopyFile ==
    /\ pc = "walk"
    /\ \E f \in pending, lib \in LibOutcomes :
        LET ext == splitext(f.fname)
            dest_path == choose_unique_filename(baseName, ext, DOMAIN output)
            stamping == addToHeader /\ Lower(ext) = DotDocx
            stamp == add_filename_to_docx_header(docxAvailable, lib)
            state == IF stamping THEN stamp.state ELSE "copied"
            content == [src |-> f, state |-> state,
                        label |-> IF state = "stamped" THEN baseName ELSE <<>>]
        IN  /\ totalFound' = totalFound + 1
            /\ output' = Write(output, dest_path, content)
            /\ attempts' = Append(attempts,
                   Attempt(f, ext, dest_path, TRUE, content,
                           IF stamping
                           THEN [called |-> TRUE, lib |-> lib, ret |-> stamp.ret,
                                 raised |-> stamp.raised]
                           ELSE NotStamped))
            /\ pending' = pending \ {f}
            /\ IF stamping /\ stamp.raised
               THEN pc' = "io_error" /\ totalCopied' = totalCopied
               ELSE pc' = pc /\ totalCopied' = totalCopied + 1
    /\ UNCHANGED <<sanVars, extVars, resVars, argVars, toScan, student, baseName, stack, result>>

\* a copy failure that is swallowed: the loop goes on with the next file
CopyFailsSwallowed ==
    /\ pc = "walk"
    /\ \E f \in pending, partial \in BOOLEAN :
        LET ext == splitext(f.fname)
            dest_path == choose_unique_filename(baseName, ext, DOMAIN output)
        IN  /\ totalFound' = totalFound + 1
            /\ output' = IF partial
                         THEN Write(output, dest_path,
                                    [src |-> f, state |-> "partial", label |-> <<>>])
                         ELSE output
            /\ attempts' = Append(attempts,
                   Attempt(f, ext, dest_path, FALSE,
                           [src |-> f, state |-> IF partial THEN "partial" ELSE "absent",
                            label |-> <<>>],
                           NotStamped))
            /\ pending' = pending \ {f}
    /\ UNCHANGED <<sanVars, extVars, resVars, argVars, pc, toScan, student, baseName, stack, totalCopied,
                   result>>

\* lines 154-159 for one file, shutil.copy2 raising: the destination is left
\* absent or partly written, and the exception leaves copy_from_local_folder
CopyFails ==
    /\ pc = "walk"
    /\ \E f \in pending, partial \in BOOLEAN :
        LET ext == splitext(f.fname)
            dest_path == choose_unique_filename(baseName, ext, DOMAIN output)
        IN  /\ totalFound' = totalFound + 1
            /\ output' = IF partial
                         THEN Write(output, dest_path,
                                    [src |-> f, state |-> "partial", label |-> <<>>])
                         ELSE output
            /\ attempts' = Append(attempts,
                   Attempt(f, ext, dest_path, FALSE,
                           [src |-> f, state |-> IF partial THEN "partial" ELSE "absent",
                            label |-> <<>>],
                           NotStamped))
            /\ pending' = pending \ {f}
    /\ pc' = "io_error"
    /\ UNCHANGED <<sanVars, extVars, resVars, argVars, toScan, student, baseName, stack, totalCopied, result>>

\* line 166
Return ==
    /\ pc = "scan"
    /\ toScan = {}
    /\ pc' = "done"
    /\ result' = <<totalFound, totalCopied>>
    /\ UNCHANGED <<sanVars, extVars, resVars, argVars, toScan, student, baseName, stack, pending,
                   totalFound, totalCopied, output, attempts>>

Next == ConfigError \/ Start \/ ScanEntry \/ WalkDir \/ WalkEnd \/ CopyFile
           \/ CopyFails \/ Return

Spec == Init /\ [][Next]_vars

-----------------------------------------------------------------------------
(* Properties *)

Range(q) == {q[i] : i \in DOMAIN q}

\* the names the run added to the output folder
NewNames == DOMAIN output \ DOMAIN out0

Students == {e.name : e \in {x \in rootEntries : x.kind = "dir"}}

\* the files in the subtrees the run is to walk
WalkedFiles ==
    {f \in srcFiles : /\ f.student \in Students
                      /\ selector # <<>> => f.dir # <<>> /\ f.dir[1] = selector}

\* C1: every copy writes to a name that was not in the output folder just
\* before it: the name is the first of base+ext, base (2)+ext, ... that was
\* free, no two copies of a run share a name, and every file that lay in the
\* folder before the run, or was written earlier in it, is still as it was.
C1_NoOverwrite ==
    /\ \A n \in DOMAIN out0 : n \in DOMAIN output /\ output[n] = Old
    /\ \A k \in DOMAIN attempts :
        LET a == attempts[k]
        IN  /\ a.dest \notin a.before
            /\ \E n \in 1..(Cardinality(a.before) + 1) :
                  /\ a.dest = Candidate(a.base, a.ext, n)
                  /\ \A m \in 1..(n - 1) : Candidate(a.base, a.ext, m) \in a.before
            /\ a.ok => a.dest \in DOMAIN output /\ output[a.dest] = a.content
    /\ \A i, j \in DOMAIN attempts : i # j => attempts[i].dest # attempts[j].dest

\* two files of one student with one extension went to base+ext and
\* base (2)+ext, and both are counted
C1_Witness ==
    /\ totalCopied = 2
    /\ Len(attempts) = 2
    /\ attempts[1].src.student = attempts[2].src.student
    /\ attempts[1].ext = attempts[2].ext
    /\ attempts[1].dest = attempts[1].base \o attempts[1].ext
    /\ attempts[2].dest = Numbered(attempts[2].base, attempts[2].ext, 2)

\* C2: on a normal return found = copied = the number of files in the walked
\* subtrees, the output folder has exactly one new file for each of them, and
\* no new name leads into a subdirectory.
C2_OneFlatFilePerSource ==
    pc = "done" =>
        /\ result = <<Cardinality(WalkedFiles), Cardinality(WalkedFiles)>>
        /\ Cardinality(NewNames) = Cardinality(WalkedFiles)
        /\ \A f \in WalkedFiles : \E n \in NewNames : output[n].src = f
        /\ \A n \in NewNames : /\ output[n].src \in WalkedFiles
                               /\ Chars(n) \cap {"/", "\\"} = {}

\* a run with a prefix returned after copying a nested file and another one
C2_Witness ==
    /\ pc = "done"
    /\ result = <<2, 2>>
    /\ prefix # <<>>
    /\ \E n \in NewNames : Len(output[n].src.dir) = 2

\* C6: with a selector, only files below the folder of that name are found
\* and copied; a student without such a folder (a file of that name is no
\* folder) adds nothing, and at the return every file below the selected
\* folders has its copy.
C6_OnlySelectedSubtree ==
    selector # <<>> =>
        /\ totalFound = Len(attempts)
        /\ \A k \in DOMAIN attempts :
              /\ attempts[k].src.dir # <<>>
              /\ attempts[k].src.dir[1] = selector
        /\ \A n \in NewNames : output[n].src.dir # <<>> /\ output[n].src.dir[1] = selector
        /\ \A st \in Students :
              <<selector>> \notin DirsOf(srcFiles, st) =>
                  /\ \A k \in DOMAIN attempts : attempts[k].src.student # st
                  /\ \A n \in NewNames : output[n].src.student # st
        /\ pc = "done" =>
              \A f \in srcFiles :
                  f.dir # <<>> /\ f.dir[1] = selector =>
                      \E n \in NewNames : output[n].src = f

\* one student has only a file named like the selector, another has the
\* folder, and the run returned with the second student's file alone
C6_Witness ==
    /\ pc = "done"
    /\ selector = DirE
    /\ \E f \in srcFiles : f.dir = <<>> /\ f.fname = DirE
    /\ \E g \in srcFiles : g.dir = <<DirE>>
    /\ result = <<1, 1>>

\* C7: a root that is no directory ends the call with the configuration error
\* and nothing else: nothing found, nothing copied, nothing returned, the
\* output folder as it was.
C7_ConfigErrorFirst ==
    /\ rootKind # "dir" => pc \in {"start", "config_error"}
    /\ pc = "config_error" =>
          /\ output = out0
          /\ attempts = <<>>
          /\ totalFound = 0 /\ totalCopied = 0
          /\ result = <<>>

\* the root is a file, the output folder held files, the error was raised
C7_Witness ==
    /\ pc = "config_error"
    /\ rootKind = "file"
    /\ DOMAIN out0 = OutNames

\* C8: the stamper never lets an exception out and answers false unless the
\* library is there and saved the document; whatever it answers, the copy it
\* was called on stays in the output folder and is counted, and the run goes
\* on: only a failed copy ends a run early.
C8_StampingBestEffort ==
    /\ \A k \in DOMAIN attempts :
        LET a == attempts[k]
        IN  a.stamp.called =>
              /\ ~a.stamp.raised
              /\ a.stamp.ret = (docxAvailable /\ a.stamp.lib = "saved")
              /\ a.ok
              /\ a.dest \in DOMAIN output /\ output[a.dest].src = a.src
              /\ totalCopied >= k
    /\ pc = "io_error" => ~attempts[Len(attempts)].ok

\* the library failed while saving, the file was counted and another file was
\* copied after it
C8_Witness ==
    /\ Len(attempts) = 2
    /\ attempts[1].stamp.called
    /\ attempts[1].stamp.lib = "save_fails"
    /\ docxAvailable
    /\ totalCopied = 2

\* C10: a failed copy is the last thing a run does: the run has ended with the
\* error, found is copied plus one, and every file copied before is in the
\* output folder exactly as it was written.
C10_FailureStopsRun ==
    \A k \in DOMAIN attempts :
        ~attempts[k].ok =>
            /\ k = Len(attempts)
            /\ pc = "io_error"
            /\ totalFound = totalCopied + 1
            /\ totalCopied = k - 1
            /\ \A j \in 1..(k - 1) :
                  /\ attempts[j].dest \in DOMAIN output
                  /\ output[attempts[j].dest] = attempts[j].content

\* the second copy failed half way, the first copy is in the output folder
C10_Witness ==
    /\ pc = "io_error"
    /\ Len(attempts) = 2
    /\ totalCopied = 1
    /\ attempts[2].content.state = "partial"
    /\ attempts[1].dest \in DOMAIN output

-----------------------------------------------------------------------------
(* Properties of the resolver, under SpecResolver *)

ResolverDistinct ==
    \A i, j \in DOMAIN rReturned : i # j => rReturned[i] # rReturned[j]

\* the returned path is not in the folder, and the folder holds what it held
\* at first and what the caller created, nothing else
ResolverFresh ==
    rPc = "returned" =>
        /\ rPath \notin rFolder
        /\ rFolder = rFolder0 \cup Range(rReturned)

\* C3 as stated: the k-th call returns the k-th of base+ext, base (2)+ext, ...
C3_OrderFromPlainName ==
    /\ ResolverDistinct
    /\ ResolverFresh
    /\ \A k \in DOMAIN rReturned : rReturned[k] = Candidate(rBase, rExt, k)

\* C3 (amended): the calls return distinct paths, none existing when it is
\* returned, and no call creates anything; the k-th call returns the k-th of
\* base+ext, base (2)+ext, ... that the folder did not hold at first, which is
\* the k-th of them all when the folder held none of them.
C3_OrderOfFreeNames ==
    /\ ResolverDistinct
    /\ ResolverFresh
    /\ \A k \in DOMAIN rReturned :
          \E n \in 1..(Cardinality(rFolder0) + k) :
              /\ rReturned[k] = Candidate(rBase, rExt, n)
              /\ rReturned[k] \notin rFolder0
              /\ Cardinality({m \in 1..(n - 1) :
                                 Candidate(rBase, rExt, m) \notin rFolder0}) = k - 1
    /\ (\A n \in 1..(MaxPre + MaxCalls) : Candidate(rBase, rExt, n) \notin rFolder0)
          => \A k \in DOMAIN rReturned : rReturned[k] = Candidate(rBase, rExt, k)

\* three calls on a folder that held base (2)+ext: base+ext, base (3)+ext,
\* base (4)+ext
C3_Witness ==
    /\ Len(rReturned) >= 3
    /\ rReturned[1] = Candidate(rBase, rExt, 1)
    /\ rReturned[2] = Candidate(rBase, rExt, 3)
    /\ Candidate(rBase, rExt, 2) \in rFolder0

-----------------------------------------------------------------------------
(* Properties of the sanitizer, under SpecSanitize *)

\* C4: the sanitized name holds no reserved character and no two spaces in a
\* row, does not end with a space or a dot, and is not empty.
C4_SanitizedIsSafe ==
    sPc # "input" =>
        /\ Chars(sOnce) \cap Invalid = {}
        /\ ~Contains2(sOnce, " ", " ")
        /\ sOnce # <<>>
        /\ sOnce[Len(sOnce)] \notin {" ", "."}

\* C5: sanitizing a sanitized name changes nothing.
C5_Idempotent == sPc = "twice" => sTwice = sOnce

-----------------------------------------------------------------------------
(* Properties of the extension, under SpecExt *)

\* C9 as stated: the extension is the name from its last dot onward, and
\* empty when the name has no dot or its only dot is the first character.
C9_FromLastDot ==
    ePc = "split" =>
        eExt = IF Dots(eName) \subseteq {1} THEN <<>> ELSE FromLastDot(eName)

\* C9 (amended): the extension is taken from the name without its leading
\* dots: from the last dot of that remainder onward, empty when it has none.
C9_FromLastDotAfterLeadingDots ==
    ePc = "split" => eExt = FromLastDot(LStrip(eName, {"."}))

\* a name with two leading dots got no extension, though it has a last dot
\* with text behind it
C9_Witness ==
    /\ ePc = "split"
    /\ Len(eName) = 3
    /\ eName[1] = "." /\ eName[2] = "." /\ eName[3] # "."
    /\ eExt = <<>>

=============================================================================
